---- MODULE Spec2Model ----
(***************************************************************************)
(* The fetch layer of src/app.py: fetch_stock_data_with_retry with its     *)
(* fallback try_alternative_download, the response cache (session cache    *)
(* and its durable file) and the page's rate limiter.                      *)
(*                                                                         *)
(* Time is counted in whole seconds.  Every time.sleep of the code adds    *)
(* its duration to the clock `now`; every outbound call to the provider    *)
(* takes either no time or MaxCallTime seconds.                            *)
(***************************************************************************)
EXTENDS Integers, Sequences, FiniteSets, TLC

VARIABLES
    now,                \* time.time(), in seconds
    cache,              \* st.session_state.cache: a dict, key -> entry
    disk,               \* the file CACHE_FILE
    last_request_time,  \* st.session_state.last_request_time
    pc,                 \* position of the page script / of the fetch
    sel,                \* selected_stock and period_value of the request
    attempt,            \* loop variable of fetch_stock_data_with_retry
    error_msg,          \* str(e) of the last exception the primary raised
    trigger,            \* which call site invoked try_alternative_download
    df,                 \* the DataFrame the fetch returned
    error,              \* the diagnostic the fetch returned
    info_attempt,       \* loop variable of fetch_ticker_info_safe
    trace,              \* history: the sleeps and outbound calls of the request
    lastLookup,         \* history: the last evaluation of the cache check
    created,            \* history: key -> when its entry in use was stamped
    session,            \* history: number of restarts so far
    fetches,            \* history: number of cache-miss requests so far
    ticks,              \* history: number of idle waits so far
    calls,              \* history: the outbound calls of the session
    lista_acoes,        \* the tickers gerar_relatorio_comparativo was given
    ri,                 \* loop variable i of gerar_relatorio_comparativo
    linha,              \* the row gerar_relatorio_comparativo is building
    relatorio,          \* the rows gerar_relatorio_comparativo appended
    rlog,               \* history: the provider calls and pauses of the report
    lastOp              \* history: the last call of get_current_price or
                        \* calcular_variacao, its provider calls and its result

vars == <<now, cache, disk, last_request_time, pc, sel, attempt, error_msg,
          trigger, df, error, info_attempt, trace, lastLookup, created,
          session, fetches, ticks, calls, lista_acoes, ri, linha, relatorio,
          rlog, lastOp>>

\* the state of gerar_relatorio_comparativo and of the two quote functions
reportVars == <<lista_acoes, ri, linha, relatorio, rlog, lastOp>>

\* the state of the page's series fetch and of its cache
pageVars == <<cache, disk, last_request_time, sel, attempt, error_msg, trigger,
              df, error, info_attempt, trace, lastLookup, created, session,
              fetches, ticks, calls>>

----------------------------------------------------------------------------
(* Program constants *)

CACHE_DURATION == 300
REQUEST_DELAY == 2
max_retries == 3
info_max_retries == 2

(* Bounds of the model *)

StartTime == 1000       \* the clock when the session starts
MaxCallTime == 1        \* an outbound call takes no time or MaxCallTime seconds
MaxFetches == 1         \* cache-miss requests per behaviour
MaxSessions == 1        \* restarts per behaviour
MaxTicks == 2           \* idle waits per behaviour
MaxSeries == 2          \* cache-miss requests of a session followed for its calls

None == "None"
CallTimes == {0, MaxCallTime}
NoMsg == << >>                  \* no exception: error_alt is None
NoDiag == [text |-> "None"]     \* the diagnostic None of a success

----------------------------------------------------------------------------
(* Error messages.  A message is the sequence of its words; the code tests *)
(* `marker in error_msg`, a substring test, modelled on the words.         *)

Contains(msg, marker) == \E i \in 1..Len(msg) : msg[i] = marker

MsgTimeout      == <<"Read", "timed", "out">>
MsgCrumb        == <<"Invalid", "Crumb">>
MsgUnauthorized == <<"401", "Unauthorized">>
Msg429          == <<"HTTP", "429">>
MsgTooMany      == <<"Too Many Requests">>
MsgCrumb429     == <<"429", "Invalid", "Crumb">>
MsgAlt          == <<"download", "failed">>

PrimaryMsgs == {MsgTimeout, MsgCrumb, MsgUnauthorized, Msg429, MsgTooMany,
                MsgCrumb429}
PageMsgs    == {MsgTimeout, MsgCrumb}

(* DataFrames: a sequence of bars; the empty DataFrame is <<>>. *)
BarsPrimary == << [Date |-> 1, Close |-> 100], [Date |-> 2, Close |-> 110] >>
BarsAlt     == << [Date |-> 1, Close |-> 100] >>
EmptyDF     == << >>

Stocks  == { <<"AAPL">>, <<"PETR4.SA">> }
Periods == { "1mo" }

----------------------------------------------------------------------------
(* Pure helpers of the code *)

get_cache_key(stock, period) == stock \o <<"_", period>>

is_cache_valid_never(cache_entry, t) == FALSE

is_cache_valid_le(cache_entry, t) ==
    IF "timestamp" \notin DOMAIN cache_entry THEN FALSE
    ELSE t - cache_entry.timestamp <= CACHE_DURATION

is_cache_valid(cache_entry, t) ==
    IF "timestamp" \notin DOMAIN cache_entry THEN FALSE
    ELSE t - cache_entry.timestamp < CACHE_DURATION

BackoffWait_off(att) == REQUEST_DELAY * (2 ^ (att - 1))

\* line 82: wait_time = REQUEST_DELAY * (2 ** attempt)
BackoffWait(att) == REQUEST_DELAY * (2 ^ att)

SteepWait_same(att) == REQUEST_DELAY * (2 ^ att)

\* line 115: wait_time = REQUEST_DELAY * (2 ** (attempt + 2))
SteepWait(att) == REQUEST_DELAY * (2 ^ (att + 2))

AltDelay_none == REQUEST_DELAY - REQUEST_DELAY

\* line 145: time.sleep(REQUEST_DELAY * 0.5)
AltDelay == REQUEST_DELAY \div 2

TryAltOnEmpty_first(att) == att = 0

TryAltOnEmpty_always(att) == TRUE

\* line 97: if attempt == 0 or attempt == max_retries - 1
TryAltOnEmpty(att) == att = 0 \/ att = max_retries - 1

IsAuthError_crumb(msg) == Contains(msg, "Crumb")

IsAuthError_wide(msg) ==
    Contains(msg, "Crumb") \/ Contains(msg, "Unauthorized") \/ Contains(msg, "429")

\* line 106: "Crumb" in error_msg or "Unauthorized" in error_msg
IsAuthError(msg) == Contains(msg, "Crumb") \/ Contains(msg, "Unauthorized")

\* line 113: "429" in error_msg or "Too Many Requests" in error_msg
IsRateLimitError(msg) ==
    Contains(msg, "429") \/ Contains(msg, "Too Many Requests")

\* line 122: the fixed diagnostic of an exhausted loop
GenericDiag == [text |-> "Nao foi possivel obter dados apos multiplas tentativas"]

SurfacedMessage_alt(msg, error_alt) == IF error_alt # NoMsg THEN error_alt ELSE msg

\* line 120: the message put in the diagnostic is the primary's error_msg;
\* error_alt is never read
SurfacedMessage(msg, error_alt) == msg

ErrorDiag_generic(msg, error_alt) == GenericDiag

\* line 120: f"Erro apos {max_retries} tentativas: {error_msg}"
ErrorDiag(msg, error_alt) ==
    [text |-> "Erro apos", tentativas |-> max_retries,
     msg |-> SurfacedMessage(msg, error_alt)]

----------------------------------------------------------------------------
(* History events *)

SleepEv(why, secs, att) == [e |-> "sleep", why |-> why, secs |-> secs, att |-> att]

CallEv(s, att, at, end, out, msg) ==
    [e |-> "call", s |-> s, att |-> att, at |-> at, end |-> end, out |-> out,
     msg |-> msg]

SleepIf(why, secs, att) == IF secs > 0 THEN <<SleepEv(why, secs, att)>> ELSE <<>>

\* The history of the outbound calls of a session is kept only when it was
\* started (FirstCalls): the calls of the last step of the script run after
\* the call before them, and the start of the last call of a series fetch
\* of the session.
NoTime == -1
NoCalls == [on |-> FALSE]
FirstCalls == [on |-> TRUE, recent |-> << >>, series |-> NoTime]

\* an outbound call: the operation, its attempt, its start, the request it
\* belongs to, the value of last_request_time when it starts and the start
\* of the series call before it
CallRec(op, att, at) ==
    [op |-> op, att |-> att, at |-> at, req |-> fetches,
     lrt |-> last_request_time, prev |-> calls.series]

Window(recent, evs) ==
    (IF recent = << >> THEN << >> ELSE <<recent[Len(recent)]>>) \o evs

\* a call of the series fetch: ticker.history (primary) or yf.download (alt)
LogSeries(op, att, at) ==
    IF ~calls.on THEN calls
    ELSE [calls EXCEPT !.recent = Window(@, <<CallRec(op, att, at)>>),
                       !.series = at]

\* calls outside the series fetch: ticker.info, ticker.fast_info
LogOther(ops, at) ==
    IF ~calls.on THEN calls
    ELSE [calls EXCEPT !.recent =
              Window(@, [i \in 1..Len(ops) |-> CallRec(ops[i], 0, at[i])])]

----------------------------------------------------------------------------
(* Outcomes of the outbound calls: what the provider may answer. *)

Out(kind, d, msg) == [kind |-> kind, df |-> d, msg |-> msg]

PrimaryOutcomes(msgs) ==
    {Out("data", BarsPrimary, NoMsg), Out("empty", EmptyDF, NoMsg)}
        \cup {Out("raise", EmptyDF, m) : m \in msgs}

AltOutcomes ==
    {Out("data", BarsAlt, NoMsg), Out("empty", EmptyDF, NoMsg),
     Out("raise", EmptyDF, MsgAlt)}

----------------------------------------------------------------------------
(* Dates: a datetime is the number of seconds since 1 January 1970, 00:00 *)

SecondsPerDay == 86400

IsLeapYear(y) == (y % 4 = 0 /\ y % 100 # 0) \/ y % 400 = 0
DaysInYear(y) == IF IsLeapYear(y) THEN 366 ELSE 365

RECURSIVE YearFrom(_, _)
\* the year of the day d days after 1 January of year y
YearFrom(y, d) ==
    IF d < 0 THEN YearFrom(y - 1, d + DaysInYear(y - 1))
    ELSE IF d < DaysInYear(y) THEN y
    ELSE YearFrom(y + 1, d - DaysInYear(y))

\* end_date.year
YearOf(t) == YearFrom(1970, t \div SecondsPerDay)

RECURSIVE DaysBefore(_)
DaysBefore(y) == IF y <= 1970 THEN 0 ELSE DaysBefore(y - 1) + DaysInYear(y - 1)

\* datetime(year, 1, 1)
JanFirst(y) == DaysBefore(y) * SecondsPerDay

\* timedelta(days=n)
Days(n) == n * SecondsPerDay

\* lines 130-143: start_date of the window of try_alternative_download
AltStartDate(period_value, end_date) ==
    CASE period_value = "7d"  -> end_date - Days(7)
      [] period_value = "1mo" -> end_date - Days(30)
      [] period_value = "ytd" -> JanFirst(YearOf(end_date))
      [] period_value = "1y"  -> end_date - Days(365)
      [] period_value = "3y"  -> end_date - Days(365 * 3)
      [] period_value = "5y"  -> end_date - Days(365 * 5)
      [] OTHER                -> end_date - Days(30)

AltUsable_always(df_alt) == TRUE

\* lines 99 and 108: if not df_alt.empty
AltUsable(df_alt) == df_alt # EmptyDF

----------------------------------------------------------------------------
(* fetch_stock_data_with_retry, lines 76-122 *)

\* the history of a call is kept from its "enter" event on
Log(tr, evs) == IF tr = <<>> THEN tr ELSE tr \o evs

Goto(pcv, att, trig, dfv, err, t, evs) ==
    /\ pc' = pcv
    /\ attempt' = att
    /\ trigger' = trig
    /\ df' = dfv
    /\ error' = err
    /\ now' = t
    /\ trace' = Log(trace, evs)

\* return df, None / return pd.DataFrame(), diagnostic
Return(dfv, err, t, evs) == Goto("returned", attempt, None, dfv, err, t, evs)

LoopNext_noreturn(t, evs) ==
    IF attempt + 1 < max_retries
    THEN Goto("primary", attempt + 1, None, EmptyDF, NoDiag, t, evs)
    ELSE Goto("spin", attempt, None, EmptyDF, NoDiag, t, evs)

LoopNext_extra(t, evs) ==
    IF attempt + 1 <= max_retries
    THEN Goto("primary", attempt + 1, None, EmptyDF, NoDiag, t, evs)
    ELSE Return(EmptyDF, GenericDiag, t, evs)

\* `continue`, or the end of the loop body: the next iteration of
\* `for attempt in range(max_retries)`, or line 122 when the range is used up
LoopNext(t, evs) ==
    IF attempt + 1 < max_retries
    THEN Goto("primary", attempt + 1, None, EmptyDF, NoDiag, t, evs)
    ELSE Return(EmptyDF, GenericDiag, t, evs)

ExceptTail_giveup(msg, error_alt, t, evs) ==
    Return(EmptyDF, ErrorDiag(msg, error_alt), t, evs)

\* lines 113-120: the rate-limit branch, the generic branch and the return
ExceptTail(msg, error_alt, t, evs) ==
    IF IsRateLimitError(msg)
    THEN IF attempt < max_retries - 1
         THEN LoopNext(t + SteepWait(attempt),
                       evs \o <<SleepEv("steep", SteepWait(attempt), attempt)>>)
         ELSE Return(EmptyDF, ErrorDiag(msg, error_alt), t, evs)
    ELSE IF attempt < max_retries - 1
         THEN LoopNext(t, evs)
         ELSE Return(EmptyDF, ErrorDiag(msg, error_alt), t, evs)

\* lines 78-111: one pass of the loop body up to the primary's answer and
\* what the code does with it before it calls the provider again
PrimaryAttempt(msgs) ==
    /\ pc = "primary"
    /\ \E out \in PrimaryOutcomes(msgs), dur \in CallTimes :
        LET w   == IF attempt > 0 THEN BackoffWait(attempt) ELSE 0
            at  == now + w
            end == at + dur
            evs == SleepIf("backoff", w, attempt)
                     \o <<CallEv("primary", attempt, at, end, out.kind, out.msg)>>
        IN  /\ error_msg' = IF out.kind = "raise" THEN out.msg ELSE error_msg
            /\ CASE out.kind = "data" -> Return(out.df, NoDiag, end, evs)
                 [] out.kind = "empty" ->
                        IF TryAltOnEmpty(attempt)
                        THEN Goto("alt", attempt, "empty", EmptyDF, NoDiag, end, evs)
                        ELSE LoopNext(end, evs)
                 [] out.kind = "raise" ->
                        IF IsAuthError(out.msg)
                        THEN Goto("alt", attempt, "auth", EmptyDF, NoDiag, end, evs)
                        ELSE ExceptTail(out.msg, NoMsg, end, evs)
            /\ calls' = LogSeries("primary", attempt, at)
    /\ UNCHANGED <<cache, disk, last_request_time, sel, info_attempt,
                   lastLookup, created, session, fetches, ticks>>
    /\ UNCHANGED reportVars

AfterAltFailure_fallthrough(error_alt, t, evs) ==
    IF trigger = "empty"
    THEN LoopNext(t, evs)
    ELSE ExceptTail(error_msg, error_alt, t, evs)

\* the secondary strategy gave nothing: the end of the try block after line
\* 99, or lines 110-120 in the exception handler
AfterAltFailure(error_alt, t, evs) ==
    IF trigger = "empty"
    THEN LoopNext(t, evs)
    ELSE IF attempt < max_retries - 1
         THEN LoopNext(t, evs)
         ELSE ExceptTail(error_msg, error_alt, t, evs)

\* try_alternative_download, lines 124-165, and the code after its two call
\* sites (lines 99-100 and 108-111)
AltDownload ==
    /\ pc = "alt"
    /\ \E out \in AltOutcomes, dur \in CallTimes :
        LET end_date   == now
            start_date == AltStartDate(sel.period, end_date)
            at  == now + AltDelay
            end == at + dur
            evs == <<SleepEv("alt", AltDelay, attempt),
                     CallEv("alt", attempt, at, end, out.kind, out.msg)
                        @@ [start_date |-> start_date, end_date |-> end_date]>>
            df_alt    == IF out.kind = "data" THEN out.df ELSE EmptyDF
            error_alt == IF out.kind = "raise" THEN out.msg ELSE NoMsg
        IN  /\ IF AltUsable(df_alt)
               THEN Return(df_alt, NoDiag, end, evs)
               ELSE AfterAltFailure(error_alt, end, evs)
            /\ calls' = LogSeries("alt", attempt, at)
    /\ UNCHANGED <<cache, disk, last_request_time, sel, error_msg, info_attempt,
                   lastLookup, created, session, fetches, ticks>>
    /\ UNCHANGED reportVars

----------------------------------------------------------------------------
(* The cache and its file *)

EmptyDict == << >>

Put(dict, key, value) ==
    [k \in (DOMAIN dict) \cup {key} |-> IF k = key THEN value ELSE dict[k]]

\* load_cache, lines 50-58: {} when the file is absent or unreadable
load_cache(file) == IF file.state = "ok" THEN file.content ELSE EmptyDict

save_cache_skipped(dict) == disk

\* save_cache, lines 60-63: the whole dict replaces the file
save_cache(dict) == [state |-> "ok", content |-> dict]

\* line 779: df_cache['Date'].astype(str)
DateToStr(d) == <<"str", d>>

StrToDate_shifted(str) == str[2] - 1

\* line 745: pd.to_datetime(df['Date'])
StrToDate(str) == str[2]

\* lines 743-746: the DataFrame rebuilt from the cached records
FromRecords(data) ==
    [i \in 1..Len(data) |-> [data[i] EXCEPT !.Date = StrToDate(@)]]

\* line 782: df.reset_index() ... to_dict('records')
ToRecords(frame) ==
    [i \in 1..Len(frame) |-> [frame[i] EXCEPT !.Date = DateToStr(@)]]

NewEntry_unstamped(frame, info, t) ==
    [data |-> ToRecords(frame),
     index |-> [i \in 1..Len(frame) |-> DateToStr(frame[i].Date)],
     info |-> info,
     timestamp |-> 0]

\* lines 781-786: the entry written for a fetched series
NewEntry(frame, info, t) ==
    [data |-> ToRecords(frame),
     index |-> [i \in 1..Len(frame) |-> DateToStr(frame[i].Date)],
     info |-> info,
     timestamp |-> t]

ShouldStore_always(frame) == TRUE

\* line 774: if not df.empty
ShouldStore(frame) == frame # EmptyDF

RateLimitWait_elapsed(t, last) ==
    IF t - last < REQUEST_DELAY THEN t - last ELSE 0

RequestStamp_early(t) == lastLookup.at

RequestStamp_onsuccess(t) == IF error # NoDiag THEN last_request_time ELSE t

\* line 761: st.session_state.last_request_time = time.time()
RequestStamp(t) == t

\* lines 751-755: the wait of the rate limiter
RateLimitWait(t, last) ==
    IF t - last < REQUEST_DELAY THEN REQUEST_DELAY - (t - last) ELSE 0

----------------------------------------------------------------------------
(* The page, lines 733-789 *)

NoStamp == [at |-> -1, session |-> -1, frame |-> << >>, n |-> 0]

\* lines 734-760: the cache check; on a hit the page shows the cached
\* series, on a miss it waits for the rate limiter and enters the fetch
PageRequest(stock, period, budget) ==
    /\ pc = "idle"
    /\ LET cache_key == get_cache_key(stock, period)
           hit == /\ cache_key \in DOMAIN cache
                  /\ is_cache_valid(cache[cache_key], now)
           w   == RateLimitWait(now, last_request_time)
       IN  /\ lastLookup' = [key |-> cache_key, at |-> now, hit |-> hit,
                             session |-> session,
                             stamp |-> IF cache_key \in DOMAIN created
                                       THEN created[cache_key] ELSE NoStamp]
           /\ sel' = [stock |-> stock, period |-> period]
           /\ IF hit
              THEN /\ df' = FromRecords(cache[cache_key].data)
                   /\ pc' = "shown"
                   /\ UNCHANGED <<now, fetches>>
              ELSE /\ now' = now + w
                   \* the model follows `budget` fetches and no more
                   /\ pc' = IF fetches < budget THEN "primary" ELSE "cut"
                   /\ df' = EmptyDF
                   /\ fetches' = fetches + 1
    /\ UNCHANGED <<cache, disk, last_request_time, attempt, error_msg, trigger,
                   error, info_attempt, trace, created, session, ticks, calls>>
    /\ UNCHANGED reportVars

Request(stock, period) == PageRequest(stock, period, MaxFetches)

\* a request of a session that is followed for MaxSeries fetches
SessionRequest(stock, period) == PageRequest(stock, period, MaxSeries)

\* the locals of the two fetch functions go out of scope when the fetch is
\* over, and the history of the call ends with it; the page shows df
EndRequest ==
    /\ pc' = "shown"
    /\ attempt' = 0
    /\ error_msg' = NoMsg
    /\ trigger' = None
    /\ info_attempt' = 0
    /\ trace' = <<>>

\* lines 761-774 and 788-789: after the fetch returned
AfterFetch ==
    /\ pc = "returned"
    /\ last_request_time' = RequestStamp(now)
    /\ df' = IF error # NoDiag THEN EmptyDF ELSE df
    /\ IF ShouldStore(df')
       THEN /\ pc' = "info"
            /\ info_attempt' = 0
            /\ UNCHANGED <<attempt, error_msg, trigger, trace>>
       ELSE EndRequest
    /\ UNCHANGED <<now, cache, disk, sel, error, lastLookup, created, session,
                   fetches, ticks, calls>>
    /\ UNCHANGED reportVars

InfoOutcomes ==
    { [kind |-> "full",  fast |-> "unused", msg |-> NoMsg],
      [kind |-> "short", fast |-> "ok",     msg |-> NoMsg],
      [kind |-> "short", fast |-> "raise",  msg |-> NoMsg],
      [kind |-> "raise", fast |-> "unused", msg |-> MsgTimeout],
      [kind |-> "raise", fast |-> "unused", msg |-> Msg429] }

\* line 194: "Crumb" in error_msg or "Unauthorized" in error_msg or "429" in error_msg
InfoGivesUp(msg) ==
    Contains(msg, "Crumb") \/ Contains(msg, "Unauthorized") \/ Contains(msg, "429")

Store_unlessfailed(info, t) ==
    LET cache_key == get_cache_key(sel.stock, sel.period)
        stored    == Put(cache, cache_key, NewEntry(df, info, t))
    IN  /\ cache' = IF info = "{}" THEN cache ELSE stored
        /\ disk' = IF info = "{}" THEN disk ELSE save_cache(stored)
        /\ created' = IF info = "{}" THEN created
                      ELSE Put(created, cache_key,
                               [at |-> t, session |-> session, frame |-> df,
                                n |-> IF cache_key \in DOMAIN created
                                      THEN created[cache_key].n + 1 ELSE 1])
        /\ now' = t
        /\ EndRequest

\* lines 781-787: the store and the write of the file
Store(info, t) ==
    LET cache_key == get_cache_key(sel.stock, sel.period)
        stored    == Put(cache, cache_key, NewEntry(df, info, t))
    IN  /\ cache' = stored
        /\ disk' = save_cache(stored)
        /\ created' = Put(created, cache_key,
                           [at |-> t, session |-> session, frame |-> df,
                            n |-> IF cache_key \in DOMAIN created
                                  THEN created[cache_key].n + 1 ELSE 1])
        /\ now' = t
        /\ EndRequest

\* fetch_ticker_info_safe, lines 167-199, one pass of its loop, and the
\* store that follows its return (lines 777-787)
InfoFetch(outs) ==
    /\ pc = "info"
    /\ \E out \in outs, dur \in CallTimes, fdur \in CallTimes :
        LET w   == IF info_attempt > 0 THEN REQUEST_DELAY * 2 ELSE 0
            \* ticker.info, then ticker.fast_info when info came back short
            end == now + w + dur + (IF out.kind = "short" THEN fdur ELSE 0)
            ops == IF out.kind = "short" THEN <<"info", "fast_info">>
                   ELSE <<"info">>
        IN  /\ calls' = LogOther(ops, <<now + w, now + w + dur>>)
            /\ CASE out.kind = "full" -> Store("info", end)
                 [] out.kind = "short" ->
                        Store(IF out.fast = "ok" THEN "fast_info" ELSE "short", end)
                 [] out.kind = "raise" ->
                        IF InfoGivesUp(out.msg)
                        THEN Store("{}", end)
                        ELSE IF info_attempt < info_max_retries - 1
                             THEN /\ info_attempt' = info_attempt + 1
                                  /\ now' = end
                                  /\ UNCHANGED <<cache, disk, created, pc, attempt,
                                                 error_msg, trigger, trace>>
                             ELSE Store("{}", end)
    /\ UNCHANGED <<last_request_time, sel, df, error, lastLookup, session,
                   fetches, ticks>>
    /\ UNCHANGED reportVars

InfoAttempt == InfoFetch(InfoOutcomes)

NoLookup == [key |-> <<>>, at |-> 0, hit |-> FALSE, session |-> 0,
             stamp |-> NoStamp]
NoSel == [stock |-> <<>>, period |-> ""]

\* the script run ends: only st.session_state (the cache and
\* last_request_time) outlives it
Done ==
    /\ pc = "shown"
    /\ pc' = "idle"
    /\ df' = EmptyDF
    /\ error' = NoDiag
    /\ sel' = NoSel
    /\ lastLookup' = NoLookup
    /\ UNCHANGED <<now, cache, disk, last_request_time, attempt, error_msg,
                   trigger, info_attempt, trace, created, session, fetches,
                   ticks>>
    /\ calls' = IF calls.on THEN [calls EXCEPT !.recent = << >>] ELSE calls
    /\ UNCHANGED reportVars

\* lines 210-214: a new session loads the cache from the file and starts
\* with last_request_time = 0
Restart ==
    /\ pc = "idle"
    /\ session < MaxSessions
    /\ cache' = load_cache(disk)
    /\ last_request_time' = 0
    /\ session' = session + 1
    /\ UNCHANGED <<now, disk, pc, sel, attempt, error_msg, trigger, df, error,
                   info_attempt, trace, lastLookup, created, fetches, ticks,
                   calls>>
    /\ UNCHANGED reportVars

\* time passes while the page is idle
TickChoices == {1, CACHE_DURATION - 1}

Tick(d) ==
    /\ pc = "idle"
    /\ ticks < MaxTicks
    /\ now' = now + d
    /\ ticks' = ticks + 1
    /\ UNCHANGED <<cache, disk, last_request_time, pc, sel, attempt, error_msg,
                   trigger, df, error, info_attempt, trace, lastLookup,
                   created, session, fetches, calls>>
    /\ UNCHANGED reportVars

----------------------------------------------------------------------------
(* The cache files a session may start from *)

Key1 == get_cache_key(<<"AAPL">>, "1mo")

OldEntry == NewEntry(BarsPrimary, "info", StartTime - (CACHE_DURATION - 1))

\* an entry written without its timestamp
BareEntry == [data |-> ToRecords(BarsPrimary), info |-> "info"]

InitialFiles ==
    { [state |-> "absent",  content |-> EmptyDict],
      [state |-> "corrupt", content |-> EmptyDict],
      [state |-> "ok", content |-> Put(EmptyDict, Key1, OldEntry)],
      [state |-> "ok", content |-> Put(EmptyDict, Key1, BareEntry)] }

\* the stamps of the entries of a file written by an earlier session
Stamps(dict) ==
    [k \in {x \in DOMAIN dict : "timestamp" \in DOMAIN dict[x]} |->
        [at |-> dict[k].timestamp, session |-> -1, frame |-> << >>, n |-> 1]]

NoRow == [none |-> TRUE]
NoOp == [fn |-> "None"]

\* no report is being generated
InitReport ==
    /\ lista_acoes = << >>
    /\ ri = 0
    /\ linha = NoRow
    /\ relatorio = << >>
    /\ rlog = << >>
    /\ lastOp = NoOp

InitLocals ==
    /\ InitReport
    /\ sel = NoSel
    /\ attempt = 0
    /\ error_msg = NoMsg
    /\ trigger = None
    /\ df = EmptyDF
    /\ error = NoDiag
    /\ info_attempt = 0
    /\ lastLookup = NoLookup
    /\ session = 0
    /\ ticks = 0

\* a session of the page: lines 210-214, then requests
Init ==
    /\ now = StartTime
    /\ disk \in InitialFiles
    /\ cache = load_cache(disk)
    /\ created = Stamps(cache)
    /\ last_request_time = 0
    /\ pc = "idle"
    /\ trace = <<>>
    /\ fetches = 0
    /\ calls = NoCalls
    /\ InitLocals

Next ==
    \/ \E stock \in Stocks, period \in Periods : Request(stock, period)
    \/ PrimaryAttempt(PageMsgs)
    \/ AltDownload
    \/ AfterFetch
    \/ InfoAttempt
    \/ Done
    \/ Restart
    \/ \E d \in TickChoices : Tick(d)

Spec == Init /\ [][Next]_vars

\* one call of fetch_stock_data_with_retry, with every class of error
InitFetch ==
    /\ now = StartTime
    /\ disk = [state |-> "absent", content |-> EmptyDict]
    /\ cache = EmptyDict
    /\ created = EmptyDict
    /\ last_request_time = 0
    /\ pc = "primary"
    /\ trace = <<[e |-> "enter", at |-> StartTime]>>
    /\ fetches = 1
    /\ calls = NoCalls
    /\ InitLocals

NextFetch ==
    \/ PrimaryAttempt(PrimaryMsgs)
    \/ AltDownload

SpecFetch == InitFetch /\ [][NextFetch]_vars

\* one session of the page followed for MaxSeries requests made back to
\* back, with the history of its outbound calls
SessionMsgs == {MsgTimeout}

SessionInfoOutcomes == { [kind |-> "full", fast |-> "unused", msg |-> NoMsg] }

InitSession ==
    /\ now = StartTime
    /\ disk = [state |-> "absent", content |-> EmptyDict]
    /\ cache = load_cache(disk)
    /\ created = Stamps(cache)
    /\ last_request_time = 0
    /\ pc = "idle"
    /\ trace = <<>>
    /\ fetches = 0
    /\ calls = FirstCalls
    /\ InitLocals

NextSession ==
    \/ \E stock \in Stocks, period \in Periods : SessionRequest(stock, period)
    \/ PrimaryAttempt(SessionMsgs)
    \/ AltDownload
    \/ AfterFetch
    \/ InfoFetch(SessionInfoOutcomes)
    \/ Done

SpecSession == InitSession /\ [][NextSession]_vars

\* one session of the page followed for MaxSeries requests, from a cache
\* file that is absent or readable, with restarts
ReadableFiles == {f \in InitialFiles : f.state # "corrupt"}

StoreInfoOutcomes ==
    { [kind |-> "full",  fast |-> "unused", msg |-> NoMsg],
      [kind |-> "raise", fast |-> "unused", msg |-> MsgTimeout] }

InitStore ==
    /\ now = StartTime
    /\ disk \in ReadableFiles
    /\ cache = load_cache(disk)
    /\ created = Stamps(cache)
    /\ last_request_time = 0
    /\ pc = "idle"
    /\ trace = <<>>
    /\ fetches = 0
    /\ calls = NoCalls
    /\ InitLocals

NextStore ==
    \/ \E stock \in Stocks, period \in Periods : SessionRequest(stock, period)
    \/ PrimaryAttempt(SessionMsgs)
    \/ AltDownload
    \/ AfterFetch
    \/ InfoFetch(StoreInfoOutcomes)
    \/ Done
    \/ Restart

SpecStore == InitStore /\ [][NextStore]_vars

\* one series request from its cache check to its end, with every class of
\* error.  The script is one thread of sequential code: as long as a step
\* is possible (a sleep ends, a provider call returns or raises), one is
\* taken.
NextRequest ==
    \/ \E stock \in Stocks, period \in Periods : Request(stock, period)
    \/ PrimaryAttempt(PrimaryMsgs)
    \/ AltDownload
    \/ AfterFetch
    \/ InfoAttempt

SpecRequest == Init /\ [][NextRequest]_vars /\ WF_vars(NextRequest)

----------------------------------------------------------------------------
(* get_current_price, lines 233-273, and calcular_variacao, lines 353-369 *)

NoVal == [none |-> TRUE]            \* None
Val(x) == [v |-> x]

\* a float result, kept as the exact quotient num / den
Quot(num, den) == [num |-> num, den |-> den]

\* yf.Ticker(ticker_symbol) and ticker_symbol.upper() succeed or raise
TickerOutcomes == {"ok", "raise"}

\* what ticker.fast_info answers
FastOutcomes == { [kind |-> "ok", last_price |-> 110], [kind |-> "raise"] }

\* what ticker.history(period='1d', interval='1m') answers
QuoteOutcomes == PrimaryOutcomes({MsgTimeout})

NeedsFallback_always(fast) == TRUE

\* lines 240-253: the fast path returns its dict, or its exception is
\* swallowed and the function goes on
NeedsFallback(fast) == fast.kind = "raise"

PathCall(op, out) == [op |-> op, out |-> out]

\* lines 233-273: the provider calls get_current_price makes for the
\* answers it gets, and what it returns
get_current_price(tk, fast, hist) ==
    IF tk = "raise" THEN [calls |-> << >>, result |-> NoVal]
    ELSE IF ~NeedsFallback(fast)
         THEN [calls |-> <<PathCall("fast_info", fast.kind)>>,
               result |-> [price |-> fast.last_price]]
         ELSE [calls |-> <<PathCall("fast_info", fast.kind),
                           PathCall("history", hist.kind)>>,
               result |-> IF hist.kind = "data"
                          THEN [price |-> hist.df[Len(hist.df)].Close]
                          ELSE NoVal]

OneBar    == << [Date |-> 1, Close |-> 100] >>
ThreeBars == << [Date |-> 1, Close |-> 100], [Date |-> 2, Close |-> 90],
                [Date |-> 3, Close |-> 110] >>

\* what ticker.history(start=start_date, end=end_date) answers
VarOutcomes ==
    { Out("raise", EmptyDF, MsgTimeout), Out("empty", EmptyDF, NoMsg),
      Out("data", OneBar, NoMsg), Out("data", BarsPrimary, NoMsg),
      Out("data", ThreeBars, NoMsg) }

HasEnoughBars_one(hist) == Len(hist) >= 1

\* line 362: if len(hist) >= 2
HasEnoughBars(hist) == Len(hist) >= 2

\* lines 353-369: the pair calcular_variacao returns
calcular_variacao(hist) ==
    IF hist.kind = "raise" THEN <<NoVal, NoVal>>
    ELSE IF HasEnoughBars(hist.df)
         THEN LET preco_inicial == hist.df[1].Close
                  preco_final   == hist.df[Len(hist.df)].Close
              IN  <<Quot((preco_final - preco_inicial) * 100, preco_inicial),
                    Val(preco_final)>>
         ELSE <<NoVal, NoVal>>

----------------------------------------------------------------------------
(* gerar_relatorio_comparativo, lines 371-417.  The report reads no clock   *)
(* and the time it takes is not followed; its history rlog has, in order,   *)
(* the calls of the two quote functions (the provider calls of a call lie   *)
(* inside it), the rows appended and the pauses.                            *)

\* lines 394-399: the periods of the six variations, in days
Dias == <<1, 7, 30, 90, 180, 365>>

\* line 412: time.sleep(0.5), in milliseconds
ReportPauseMs == 500

categories_dict == [t \in { <<"AAPL">> } |-> "Tech"]

\* line 383: categories_dict.get(ticker_symbol, 'Sem categoria')
Categoria(t) ==
    IF t \in DOMAIN categories_dict THEN categories_dict[t] ELSE "Sem categoria"

RCall(i, fn, dias) == [i |-> i, e |-> "call", fn |-> fn, dias |-> dias]

\* line 387-391: get_current_price for the ticker, and the price of the row
ReportPrice ==
    /\ pc = "price"
    /\ \E tk \in TickerOutcomes, fast \in FastOutcomes, hist \in QuoteOutcomes :
        LET ticker_symbol == lista_acoes[ri + 1]
            r == get_current_price(tk, fast, hist)
            current_data == r.result
        IN  /\ lastOp' = [fn |-> "get_current_price", calls |-> r.calls,
                          result |-> current_data]
            /\ linha' = [Acao |-> ticker_symbol,
                         Categoria |-> Categoria(ticker_symbol),
                         Preco |-> IF current_data # NoVal
                                   THEN Val(current_data.price) ELSE NoVal,
                         vars |-> << >>]
            /\ rlog' = Append(rlog, RCall(ri, "get_current_price", 0))
            /\ pc' = "var"
    /\ UNCHANGED <<now, lista_acoes, ri, relatorio>>
    /\ UNCHANGED pageVars

\* lines 394-399: the next of the six calls of calcular_variacao
ReportVariation ==
    /\ pc = "var"
    /\ Len(linha.vars) < Len(Dias)
    /\ \E hist \in VarOutcomes :
        LET dias == Dias[Len(linha.vars) + 1]
            r == calcular_variacao(hist)
        IN  /\ lastOp' = [fn |-> "calcular_variacao", dias |-> dias,
                          hist |-> hist, result |-> r]
            /\ linha' = [linha EXCEPT !.vars = Append(@, r[1])]
            /\ rlog' = Append(rlog, RCall(ri, "calcular_variacao", dias))
    /\ UNCHANGED <<now, pc, lista_acoes, ri, relatorio>>
    /\ UNCHANGED pageVars

\* lines 401-407: the row of the report
RowOf(l) ==
    [Acao |-> l.Acao, Categoria |-> l.Categoria, Preco |-> l.Preco,
     VarDia |-> l.vars[1], Var7Dias |-> l.vars[2], VarMes |-> l.vars[3],
     Var30Dias |-> l.vars[3], VarTrimestre |-> l.vars[4],
     VarSemestre |-> l.vars[5], VarAno |-> l.vars[6]]

AppendRow_skipfailed(rel, row) ==
    IF row.Preco = NoVal THEN rel ELSE Append(rel, row)

\* line 409: relatorio.append(linha)
AppendRow(rel, row) == Append(rel, row)

\* lines 401-412: the row is appended, the pause, and the next ticker
ReportAppend ==
    /\ pc = "var"
    /\ Len(linha.vars) = Len(Dias)
    /\ relatorio' = AppendRow(relatorio, RowOf(linha))
    /\ rlog' = rlog \o << [i |-> ri, e |-> "row"],
                          [i |-> ri, e |-> "pause", ms |-> ReportPauseMs] >>
    /\ ri' = ri + 1
    /\ linha' = NoRow
    /\ lastOp' = NoOp
    /\ pc' = IF ri + 1 < Len(lista_acoes) THEN "price" ELSE "report_done"
    /\ UNCHANGED <<now, lista_acoes>>
    /\ UNCHANGED pageVars

\* the lists of tickers a report is asked for: the registered stocks or
\* some of them, in any order, without repetition
ReportLists ==
    { l \in UNION { [1..n -> Stocks] : n \in 1..Cardinality(Stocks) } :
        \A i, j \in 1..Len(l) : i # j => l[i] # l[j] }

InitRun ==
    /\ now = StartTime
    /\ disk = [state |-> "absent", content |-> EmptyDict]
    /\ cache = EmptyDict
    /\ created = EmptyDict
    /\ last_request_time = 0
    /\ trace = <<>>
    /\ fetches = 0
    /\ calls = NoCalls
    /\ sel = NoSel
    /\ attempt = 0
    /\ error_msg = NoMsg
    /\ trigger = None
    /\ df = EmptyDF
    /\ error = NoDiag
    /\ info_attempt = 0
    /\ lastLookup = NoLookup
    /\ session = 0
    /\ ticks = 0

\* one call of gerar_relatorio_comparativo, line 462
InitReportRun ==
    /\ InitRun
    /\ pc = "price"
    /\ lista_acoes \in ReportLists
    /\ ri = 0
    /\ linha = NoRow
    /\ relatorio = << >>
    /\ rlog = << >>
    /\ lastOp = NoOp

NextReport ==
    \/ ReportPrice
    \/ ReportVariation
    \/ ReportAppend

SpecReport == InitReportRun /\ [][NextReport]_vars

\* one call of fetch_stock_data_with_retry for every period code, at
\* several dates, the primary failing with an auth error or returning
\* nothing
AltPeriods == {"1d", "7d", "1mo", "ytd", "1y", "3y", "5y", "max"}

AltInstants ==
    { StartTime, StartTime + Days(59), JanFirst(1972) + Days(365) + StartTime,
      JanFirst(1973) }

AltMsgs == {MsgCrumb}

InitAlt ==
    /\ now \in AltInstants
    /\ disk = [state |-> "absent", content |-> EmptyDict]
    /\ cache = EmptyDict
    /\ created = EmptyDict
    /\ last_request_time = 0
    /\ pc = "primary"
    /\ trace = <<[e |-> "enter", at |-> now]>>
    /\ fetches = 1
    /\ calls = NoCalls
    /\ InitReport
    /\ sel \in [stock : { <<"AAPL">> }, period : AltPeriods]
    /\ attempt = 0
    /\ error_msg = NoMsg
    /\ trigger = None
    /\ df = EmptyDF
    /\ error = NoDiag
    /\ info_attempt = 0
    /\ lastLookup = NoLookup
    /\ session = 0
    /\ ticks = 0

NextAlt ==
    \/ PrimaryAttempt(AltMsgs)
    \/ AltDownload

SpecAlt == InitAlt /\ [][NextAlt]_vars

----------------------------------------------------------------------------
(* Reading the history of one call of fetch_stock_data_with_retry *)

IsCall(i, s) == trace[i].e = "call" /\ trace[i].s = s

PrimaryIdx == {i \in 1..Len(trace) : IsCall(i, "primary")}
AltIdx     == {i \in 1..Len(trace) : IsCall(i, "alt")}

Raised(i) == trace[i].out = "raise"

HasAuthMarker(msg) == Contains(msg, "Crumb") \/ Contains(msg, "Unauthorized")
HasRateMarker(msg) == Contains(msg, "429") \/ Contains(msg, "Too Many Requests")

LastPrimary == CHOOSE i \in PrimaryIdx : \A j \in PrimaryIdx : j <= i

\* the primary call of attempt n, if it was made
PrimaryOf(n) == {i \in PrimaryIdx : trace[i].att = n}

\* the secondary strategy is invoked next after event i: its pause, then its
\* outbound call, or the call is about to be made
AltFollows(i) ==
    \/ i = Len(trace) /\ pc = "alt"
    \/ /\ Len(trace) >= i + 2
       /\ trace[i + 1] = SleepEv("alt", REQUEST_DELAY \div 2, trace[i].att)
       /\ IsCall(i + 2, "alt")
       /\ trace[i + 2].att = trace[i].att
       /\ trace[i + 2].at = trace[i].end + (REQUEST_DELAY \div 2)

NoAltFor(i) ==
    /\ ~(i = Len(trace) /\ pc = "alt")
    /\ \A j \in AltIdx : trace[j].att # trace[i].att

Returned == pc = "returned"
Failed == Returned /\ df = EmptyDF

----------------------------------------------------------------------------
AllEmptyRun ==
    /\ \A i \in PrimaryIdx : trace[i].out = "empty"
    /\ \A i \in AltIdx : trace[i].out \in {"empty", "raise"}

\* C1: when the primary returns an empty series on every attempt and the
\* secondary never returns data either, the call ends in failure after
\* exactly max_retries (3) primary calls and exactly two secondary calls,
\* one on attempt 0 and one on attempt 2.
C1_ExhaustionAllEmpty ==
    (Returned /\ AllEmptyRun) =>
        /\ df = EmptyDF
        /\ error # NoDiag
        /\ Cardinality(PrimaryIdx) = 3
        /\ {trace[i].att : i \in PrimaryIdx} = 0..2
        /\ Cardinality(AltIdx) = 2
        /\ {trace[i].att : i \in AltIdx} = {0, 2}

C1_Witness ==
    /\ Returned
    /\ AllEmptyRun
    /\ \E i \in AltIdx : trace[i].out = "raise"
    /\ \E i \in AltIdx : trace[i].out = "empty"

----------------------------------------------------------------------------
AuthFailure(i) == i \in PrimaryIdx /\ Raised(i) /\ HasAuthMarker(trace[i].msg)

\* C2 as stated: after a primary failure with an auth marker no sleep at
\* all separates the failure from the secondary's outbound call.
C2_NoSleepBeforeAltCall ==
    \A i \in PrimaryIdx :
        (AuthFailure(i) /\ Len(trace) > i) =>
            /\ IsCall(i + 1, "alt")
            /\ trace[i + 1].at = trace[i].end

\* C2 amended: after a primary failure with an auth marker ("Crumb" or
\* "Unauthorized") the secondary strategy is invoked before any backoff
\* sleep; the one sleep between the failure and the secondary's outbound
\* call is the secondary's own pause of REQUEST_DELAY / 2 = 1 second.
C2_AltBeforeBackoff ==
    \A i \in PrimaryIdx :
        AuthFailure(i) =>
            /\ AltFollows(i)
            /\ Len(trace) > i =>
                  /\ trace[i + 1].why = "alt"
                  /\ trace[i + 1].secs = 1
                  /\ trace[i + 2].at - trace[i].end = 1

C2_Witness ==
    \E i \in PrimaryIdx :
        /\ AuthFailure(i)
        /\ Contains(trace[i].msg, "Unauthorized")
        /\ Len(trace) >= i + 2
        /\ IsCall(i + 2, "alt")

----------------------------------------------------------------------------
GenericFailure(i) ==
    /\ i \in PrimaryIdx
    /\ Raised(i)
    /\ ~HasAuthMarker(trace[i].msg)
    /\ ~HasRateMarker(trace[i].msg)

AllGenericRun == \A i \in PrimaryIdx : GenericFailure(i)

\* the time between the end of the primary call before call i (the entry of
\* the function for attempt 0) and the start of call i
WaitBefore(i) ==
    LET n == trace[i].att
    IN  IF n = 0 THEN trace[i].at - trace[1].at
        ELSE trace[i].at - trace[CHOOSE j \in PrimaryOf(n - 1) : TRUE].end

\* C3: when every primary attempt fails with a generic error, no wait
\* precedes attempt 0 and the wait before attempt n >= 1 is
\* REQUEST_DELAY * 2^n: 4 s before attempt 1, 8 s before attempt 2.
C3_GenericBackoff ==
    AllGenericRun =>
        \A i \in PrimaryIdx :
            LET n == trace[i].att
            IN  /\ n = 0 => WaitBefore(i) = 0
                /\ n >= 1 => WaitBefore(i) = REQUEST_DELAY * (2 ^ n)
                /\ n = 1 => WaitBefore(i) = 4
                /\ n = 2 => WaitBefore(i) = 8
                /\ n >= 1 => trace[i - 1] = SleepEv("backoff", WaitBefore(i), n)

C3_Witness ==
    /\ Returned
    /\ AllGenericRun
    /\ Cardinality(PrimaryIdx) = 3

----------------------------------------------------------------------------
RateFailure(i) == i \in PrimaryIdx /\ Raised(i) /\ HasRateMarker(trace[i].msg)

NotFinal(i) == trace[i].att < max_retries - 1

\* C4 as stated: after a rate-limit failure of a non-final attempt n the
\* next primary call starts REQUEST_DELAY * 2^(n+2) after the failure.
C4_SteepWaitIsTotal ==
    \A i \in PrimaryIdx :
        (RateFailure(i) /\ NotFinal(i)) =>
            \A j \in PrimaryOf(trace[i].att + 1) :
                trace[j].at - trace[i].end = REQUEST_DELAY * (2 ^ (trace[i].att + 2))

\* C4 amended: after a failure of a non-final attempt n whose message has a
\* rate-limit marker and no auth marker, the code sleeps
\* REQUEST_DELAY * 2^(n+2) and then the normal backoff
\* REQUEST_DELAY * 2^(n+1) of attempt n+1: the next primary call starts
\* REQUEST_DELAY * (2^(n+2) + 2^(n+1)) after the failure.
C4_SteepPlusBackoff ==
    \A i \in PrimaryIdx :
        (RateFailure(i) /\ ~HasAuthMarker(trace[i].msg) /\ NotFinal(i)) =>
            LET n == trace[i].att
            IN  /\ Len(trace) > i
                /\ trace[i + 1] = SleepEv("steep", REQUEST_DELAY * (2 ^ (n + 2)), n)
                /\ \A j \in PrimaryOf(n + 1) :
                      /\ j = i + 3
                      /\ trace[i + 2] =
                            SleepEv("backoff", REQUEST_DELAY * (2 ^ (n + 1)), n + 1)
                      /\ trace[j].at - trace[i].end =
                            REQUEST_DELAY * (2 ^ (n + 2)) + REQUEST_DELAY * (2 ^ (n + 1))

C4_Witness ==
    \E i \in PrimaryIdx :
        /\ RateFailure(i)
        /\ ~HasAuthMarker(trace[i].msg)
        /\ trace[i].att = 1
        /\ PrimaryOf(2) # {}
        /\ \A j \in PrimaryOf(2) : trace[j].at - trace[i].end = 24

----------------------------------------------------------------------------
EmptyResult(i) == i \in PrimaryIdx /\ trace[i].out = "empty"

\* C5: an empty primary result invokes the secondary strategy on the first
\* attempt (0) and on the final attempt (max_retries - 1) and on no middle
\* attempt.
C5_AltOnFirstAndLastEmpty ==
    \A i \in PrimaryIdx :
        EmptyResult(i) =>
            IF trace[i].att = 0 \/ trace[i].att = max_retries - 1
            THEN AltFollows(i)
            ELSE NoAltFor(i)

C5_Witness ==
    /\ Returned
    /\ \E i \in PrimaryIdx : EmptyResult(i) /\ trace[i].att = 1
    /\ \E i \in PrimaryIdx : EmptyResult(i) /\ trace[i].att = 2 /\ AltFollows(i)
    /\ \E i \in PrimaryIdx : EmptyResult(i) /\ trace[i].att = 0 /\ AltFollows(i)

----------------------------------------------------------------------------
SteepFollows(i) ==
    /\ Len(trace) > i
    /\ trace[i + 1] =
          SleepEv("steep", REQUEST_DELAY * (2 ^ (trace[i].att + 2)), trace[i].att)
    /\ \/ Len(trace) = i + 1 /\ pc = "primary"
       \/ Len(trace) >= i + 3 /\ IsCall(i + 3, "primary")

\* C6 as stated: no primary failure whose message has a rate-limit marker
\* invokes the secondary strategy for its attempt; a non-final one is
\* followed by the steeper backoff and a retry of the primary.
C6_RateLimitNeverFallsBack ==
    \A i \in PrimaryIdx :
        RateFailure(i) =>
            /\ NoAltFor(i)
            /\ NotFinal(i) => SteepFollows(i)

\* C6 amended: a primary failure whose message has a rate-limit marker
\* ("429", "Too Many Requests") and no auth marker ("Crumb",
\* "Unauthorized") does not invoke the secondary strategy for its attempt;
\* on a non-final attempt the steeper backoff follows and the primary is
\* retried.  (A message with markers of both classes is handled as an auth
\* failure: the secondary strategy is invoked.)
C6_PureRateLimitNoFallback ==
    \A i \in PrimaryIdx :
        (RateFailure(i) /\ ~HasAuthMarker(trace[i].msg)) =>
            /\ NoAltFor(i)
            /\ NotFinal(i) => SteepFollows(i)

C6_Witness ==
    /\ Failed
    /\ \A i \in PrimaryIdx : RateFailure(i) /\ ~HasAuthMarker(trace[i].msg)
    /\ Cardinality(PrimaryIdx) = 3
    /\ AltIdx = {}
    /\ \E i \in PrimaryIdx : Contains(trace[i].msg, "Too Many Requests")

----------------------------------------------------------------------------
RaisedBefore == \E i \in PrimaryIdx : Raised(i)

LastRaised == CHOOSE i \in PrimaryIdx : Raised(i) /\ \A j \in PrimaryIdx : Raised(j) => j <= i

CarriesMessage(diag, msg) ==
    /\ "msg" \in DOMAIN diag
    /\ diag.msg = msg
    /\ "tentativas" \in DOMAIN diag
    /\ diag.tentativas = Cardinality(PrimaryIdx)

\* C7 as stated: every terminal failure of a fetch during which an error
\* was raised returns a diagnostic with the last error message raised and
\* the attempt count.
C7_DiagnosticAlwaysCarriesLastError ==
    (Failed /\ RaisedBefore) => CarriesMessage(error, trace[LastRaised].msg)

\* C7 amended: a terminal failure whose final primary attempt raised
\* returns a diagnostic with that attempt's error message and the attempt
\* count (max_retries); a terminal failure whose final primary attempt
\* returned empty returns the fixed diagnostic of line 122, which carries
\* neither an error message nor a count, whatever earlier attempts raised.
C7_DiagnosticOfFinalAttempt ==
    Failed =>
        /\ error # NoDiag
        /\ IF Raised(LastPrimary)
           THEN CarriesMessage(error, trace[LastPrimary].msg)
           ELSE /\ error = GenericDiag
                /\ "msg" \notin DOMAIN error
                /\ "tentativas" \notin DOMAIN error

C7_Witness ==
    /\ Failed
    /\ RaisedBefore
    /\ ~Raised(LastPrimary)
    /\ error = GenericDiag

C7_WitnessRaised ==
    /\ Failed
    /\ Raised(LastPrimary)
    /\ CarriesMessage(error, MsgTimeout)

----------------------------------------------------------------------------
\* the final primary attempt failed with an auth marker and the secondary
\* strategy invoked for it raised too
FinalAuthAndAltRaised ==
    /\ Failed
    /\ AuthFailure(LastPrimary)
    /\ trace[LastPrimary].att = max_retries - 1
    /\ Len(trace) = LastPrimary + 2
    /\ IsCall(Len(trace), "alt")
    /\ trace[Len(trace)].out = "raise"

\* C8 as stated: when the final primary attempt fails with an auth error
\* and the secondary strategy fails too, the diagnostic carries the
\* secondary's error.
C8_SurfacesFallbackError ==
    FinalAuthAndAltRaised => error.msg = trace[Len(trace)].msg

\* C8 amended: when the final primary attempt fails with an auth error and
\* the secondary strategy fails too, the diagnostic carries the primary's
\* error message; the secondary's error is dropped.
C8_SurfacesPrimaryError ==
    (Failed /\ AuthFailure(LastPrimary) /\ trace[LastPrimary].att = max_retries - 1) =>
        /\ IsCall(Len(trace), "alt")
        /\ trace[Len(trace)].out \in {"empty", "raise"}
        /\ CarriesMessage(error, trace[LastPrimary].msg)
        /\ trace[Len(trace)].out = "raise" => error.msg # trace[Len(trace)].msg

C8_Witness ==
    /\ FinalAuthAndAltRaised
    /\ error.msg = MsgCrumb

----------------------------------------------------------------------------
Looked == lastLookup # NoLookup

\* C9: the cache check is a hit iff the key has an entry with a timestamp
\* and now - timestamp < 300 s; at an age of exactly 300 s or more, and for
\* an entry without a timestamp, it is a miss.  The age is counted from the
\* time the entry was stamped (lastLookup.stamp, the stamp of the key when
\* the check ran), also after the cache was reloaded from the file by a
\* restart.
C9_HitIffYoungerThanTTL ==
    Looked =>
        (lastLookup.hit <=>
            /\ lastLookup.stamp # NoStamp
            /\ lastLookup.at - lastLookup.stamp.at < 300)

C9_Witness ==
    /\ Looked
    /\ ~lastLookup.hit
    /\ lastLookup.stamp # NoStamp
    /\ lastLookup.at - lastLookup.stamp.at = 300
    /\ lastLookup.stamp.session = 0
    /\ lastLookup.session = 1

C9_WitnessHit ==
    /\ Looked
    /\ lastLookup.hit
    /\ lastLookup.at - lastLookup.stamp.at = 299
    /\ lastLookup.stamp.session = 0
    /\ lastLookup.session = 1

C9_WitnessNoTimestamp ==
    /\ Looked
    /\ ~lastLookup.hit
    /\ lastLookup.key \in DOMAIN cache
    /\ "timestamp" \notin DOMAIN cache[lastLookup.key]

----------------------------------------------------------------------------
\* C10: a fetch that fails (a diagnostic, or an empty series) leaves the
\* cache and the file unchanged: the only step that changes either is the
\* store after a fetch that returned a non-empty series without a
\* diagnostic, and it writes the entry of the requested key only.
C10_OnlyNonEmptyFetchStores ==
    [][ (cache' # cache \/ disk' # disk) =>
            /\ pc = "info"
            /\ df # EmptyDF
            /\ error = NoDiag
            /\ \A k \in DOMAIN cache :
                  k # get_cache_key(sel.stock, sel.period) => 
                      k \in DOMAIN cache' /\ cache'[k] = cache[k] ]_vars

C10_Witness ==
    /\ pc = "shown"
    /\ error # NoDiag
    /\ df = EmptyDF
    /\ Looked
    /\ ~lastLookup.hit
    /\ lastLookup.key \in DOMAIN cache
    /\ cache[lastLookup.key] = OldEntry
    /\ disk = save_cache(cache)

----------------------------------------------------------------------------
(* Reading the history of the calls of a session *)

SessionCalls ==
    IF calls.on THEN {calls.recent[i] : i \in 1..Len(calls.recent)} ELSE {}

IsSeriesCall(c) == c.op \in {"primary", "alt"}

\* the first outbound call of a cache-miss request
FirstOfRequest(c) == c.op = "primary" /\ c.att = 0

\* a series call was made in the session before call c
Preceded(c) == c.prev # NoTime

\* the fetch of a cache-miss request of the session is in progress
Fetching == calls.on /\ pc \in {"primary", "alt", "returned"}

----------------------------------------------------------------------------
\* C11: when cache-miss requests follow one another in a session, the first
\* outbound call of a request starts at least REQUEST_DELAY (2 s) after the
\* start of every outbound call of the series fetch of the request before
\* it; the limiter sleeps REQUEST_DELAY - elapsed when the time elapsed
\* since last_request_time is below REQUEST_DELAY and does not sleep
\* otherwise.
C11_RequestsSpaced ==
    \A c \in SessionCalls :
        FirstOfRequest(c) =>
            LET elapsed == lastLookup.at - c.lrt
            IN  /\ Preceded(c) => c.at - c.prev >= 2
                /\ elapsed < 2 => c.at - lastLookup.at = 2 - elapsed
                /\ elapsed >= 2 => c.at = lastLookup.at

C11_Witness ==
    \E c \in SessionCalls :
        /\ FirstOfRequest(c)
        /\ c.req = 2
        /\ Preceded(c)
        /\ c.at - c.prev = 2
        /\ c.at - lastLookup.at = 1

----------------------------------------------------------------------------
\* C12 as stated: any two consecutive outbound calls are at least
\* REQUEST_DELAY apart, whichever operation issues them.
C12_AllCallsSpaced ==
    calls.on =>
        \A i \in 1..(Len(calls.recent) - 1) :
            calls.recent[i + 1].at - calls.recent[i].at >= REQUEST_DELAY

\* C12 amended: in a session, a call of the primary strategy starts at
\* least REQUEST_DELAY after the start of the series call before it; the
\* call of the secondary strategy starts REQUEST_DELAY / 2 (1 s) or more
\* after the primary call that invoked it, less than REQUEST_DELAY when
\* that call took less than a second; the calls of the metadata fetch are
\* not spaced from the call before them.
C12_SeriesCallsSpaced ==
    \A c \in SessionCalls :
        /\ (c.op = "primary" /\ Preceded(c)) => c.at - c.prev >= REQUEST_DELAY
        /\ c.op = "alt" =>
              /\ Preceded(c)
              /\ c.at - c.prev >= REQUEST_DELAY \div 2

C12_Witness ==
    /\ calls.on
    /\ Len(calls.recent) = 2
    /\ calls.recent[1].op = "alt"
    /\ calls.recent[1].at - calls.recent[1].prev = 1
    /\ calls.recent[2].op = "info"
    /\ calls.recent[2].at = calls.recent[1].at

----------------------------------------------------------------------------
\* C13 as stated: when the first outbound call of a request starts,
\* last_request_time has just been set to that time.
C13_StampedAtCallStart ==
    \A c \in SessionCalls : FirstOfRequest(c) => c.lrt = c.at

\* C13 amended: last_request_time is set to the current time when the
\* series fetch has returned, after all of its attempts: during the fetch
\* it still has the value the limiter read, at least REQUEST_DELAY before
\* the first outbound call, and right after the fetch it is the time of
\* the return, at or after the start of every call of the fetch.
C13_StampedAfterFetch ==
    /\ Fetching =>
          /\ last_request_time <= lastLookup.at
          /\ \A c \in SessionCalls :
                IsSeriesCall(c) =>
                    /\ c.lrt = last_request_time
                    /\ c.at >= last_request_time + REQUEST_DELAY
    /\ (calls.on /\ pc = "info" /\ info_attempt = 0) =>
          /\ last_request_time = now
          /\ last_request_time >= calls.series
          /\ \A c \in SessionCalls : c.lrt < last_request_time
    /\ (calls.on /\ pc = "shown" /\ Looked /\ ~lastLookup.hit) =>
          last_request_time >= calls.series

C13_Witness ==
    /\ calls.on
    /\ pc = "info"
    /\ fetches = 2
    /\ last_request_time = now
    /\ calls.series < last_request_time
    /\ \E c \in SessionCalls : FirstOfRequest(c) /\ c.at < last_request_time

----------------------------------------------------------------------------
\* the entry the file of an earlier session holds
FromFile(k) == created[k].session = -1

\* C14: a store for a key that already has an entry leaves one entry for
\* the key, with the timestamp and the series of the later store, in the
\* cache and in the file; the cache never holds more entries than there are
\* (ticker, period) pairs, and the entries of the other keys stay as they
\* were.
C14_StoreOverwrites ==
    /\ Cardinality(DOMAIN cache) <= Cardinality(Stocks \X Periods)
    /\ \A k \in DOMAIN created :
          /\ k \in DOMAIN cache
          /\ k \in DOMAIN load_cache(disk)
          /\ load_cache(disk)[k] = cache[k]
          /\ cache[k].timestamp = created[k].at
          /\ IF FromFile(k)
             THEN cache[k] = OldEntry
             ELSE FromRecords(cache[k].data) = created[k].frame

C14_Witness ==
    \E k \in DOMAIN created :
        /\ created[k].n = 2
        /\ created[k].frame = BarsAlt
        /\ cache[k].timestamp > OldEntry.timestamp
        /\ cache[k].info = "fast_info"
        /\ DOMAIN cache = {k}

C14_WitnessOtherKey ==
    \E k \in DOMAIN created :
        /\ created[k].n = 1
        /\ ~FromFile(k)
        /\ \E j \in DOMAIN cache : j # k /\ cache[j] = OldEntry

----------------------------------------------------------------------------
----------------------------------------------------------------------------
\* C16: every return of fetch_stock_data_with_retry is a non-empty series
\* without a diagnostic, or an empty series with a non-empty diagnostic.
C16_ReturnShapes ==
    Returned =>
        \/ df # EmptyDF /\ error = NoDiag
        \/ df = EmptyDF /\ error # NoDiag /\ error.text # ""

C16_Witness ==
    /\ Returned
    /\ df = BarsAlt
    /\ error = NoDiag
    /\ RaisedBefore
    /\ trigger = None

----------------------------------------------------------------------------
(* Reading the history of the quote functions and of the report *)

IsQuote == lastOp.fn = "get_current_price"
IsVariation == lastOp.fn = "calcular_variacao"

\* C17: get_current_price calls the fast path first and the intraday
\* history only after the fast path raised, each at most once; it returns
\* None when the history raises or is empty after the fast path failed, and
\* a dict with the price otherwise: it never raises.
C17_FastThenFallback ==
    IsQuote =>
        LET c == lastOp.calls
        IN  /\ Len(c) <= 2
            /\ Len(c) >= 1 => c[1].op = "fast_info"
            /\ Len(c) = 1 => c[1].out = "ok" /\ lastOp.result = [price |-> 110]
            /\ Len(c) = 2 =>
                  /\ c[1].out = "raise"
                  /\ c[2].op = "history"
                  /\ c[2].out \in {"raise", "empty"} => lastOp.result = NoVal
                  /\ c[2].out = "data" => lastOp.result = [price |-> 110]
            /\ lastOp.result = NoVal \/ DOMAIN lastOp.result = {"price"}

C17_Witness ==
    /\ IsQuote
    /\ Len(lastOp.calls) = 2
    /\ lastOp.calls[2].out = "empty"
    /\ lastOp.result = NoVal
    /\ linha.Preco = NoVal
    /\ ri = 1

----------------------------------------------------------------------------
\* C18: calcular_variacao returns (None, None) when the history raises or
\* has fewer than 2 bars; with 2 bars or more it returns
\* ((last close - first close) / first close x 100, last close): first
\* close 100 and last close 110 give (10, 110).
C18_VariationOrNone ==
    IsVariation =>
        LET h == lastOp.hist
            r == lastOp.result
            n == Len(h.df)
        IN  /\ (h.kind = "raise" \/ n < 2) => r = <<NoVal, NoVal>>
            /\ (h.kind # "raise" /\ n >= 2) =>
                  /\ r[1] = Quot((h.df[n].Close - h.df[1].Close) * 100,
                                 h.df[1].Close)
                  /\ r[2] = Val(h.df[n].Close)
                  /\ (h.df[1].Close = 100 /\ h.df[n].Close = 110) =>
                        /\ r[1].num = 10 * r[1].den
                        /\ r[2].v = 110

C18_Witness ==
    /\ IsVariation
    /\ lastOp.hist.df = OneBar
    /\ lastOp.result = <<NoVal, NoVal>>
    /\ Len(linha.vars) = 2
    /\ linha.vars[1] = Quot(1000, 100)
    /\ linha.vars[2] = NoVal

----------------------------------------------------------------------------
\* the calls, the row and the pause of a ticker that was processed
EventsOf(i) ==
    <<RCall(i, "get_current_price", 0)>>
        \o [k \in 1..6 |-> RCall(i, "calcular_variacao", Dias[k])]
        \o << [i |-> i, e |-> "row"], [i |-> i, e |-> "pause", ms |-> 500] >>

\* the part of the history that belongs to ticker i
LogOf(i) == SelectSeq(rlog, LAMBDA ev : ev.i = i)

IsPrefix(a, b) == Len(a) <= Len(b) /\ \A j \in 1..Len(a) : a[j] = b[j]

\* C19: the report processes the tickers one after the other in list
\* order: the quote call and the six variation calls of ticker i, its row
\* and the pause of 0.5 s come before every call of ticker i+1, one call is
\* made at a time, and the report has one row per ticker of the list, in
\* the order of the list, whatever failed.
C19_SerialReport ==
    /\ \A j \in 1..(Len(rlog) - 1) : rlog[j].i <= rlog[j + 1].i
    /\ \A i \in 0..(ri - 1) : LogOf(i) = EventsOf(i)
    /\ (pc \in {"price", "var"}) => IsPrefix(LogOf(ri), EventsOf(ri))
    /\ Len(relatorio) = ri
    /\ \A j \in 1..Len(relatorio) : relatorio[j].Acao = lista_acoes[j]
    /\ pc = "report_done" =>
          /\ Len(relatorio) = Len(lista_acoes)
          /\ Len(rlog) = 9 * Len(lista_acoes)

C19_Witness ==
    /\ pc = "report_done"
    /\ Len(lista_acoes) = 2
    /\ relatorio[1].Preco = NoVal
    /\ relatorio[1].VarDia = NoVal
    /\ relatorio[1].VarAno = NoVal
    /\ relatorio[2].Preco = Val(110)
    /\ relatorio[2].Acao = <<"AAPL">>

----------------------------------------------------------------------------
DayOf(t) == t \div SecondsPerDay

Enumerated(p) == p \in {"1d", "7d", "1mo", "ytd", "1y", "3y", "5y"}

\* C20: the window of the secondary strategy ends now and starts, for 1d,
\* today; for 7d, 7 days before; for 1mo, 30 days; for ytd, on 1 January
\* of the current year; for 1y, 365 days; for 3y, 1095 days; for 5y, 1825
\* days; for a code outside the enumeration, 30 days before.
C20_PeriodTableWindows ==
    \A i \in AltIdx :
        LET p     == sel.period
            start == trace[i].start_date
            end   == trace[i].end_date
        IN  /\ end = trace[i].at - 1
            /\ p = "1d"  => DayOf(start) = DayOf(end)
            /\ p = "7d"  => end - start = 7 * 86400
            /\ p = "1mo" => end - start = 30 * 86400
            /\ p = "ytd" =>
                  /\ start <= end
                  /\ start % 86400 = 0
                  /\ YearOf(start) = YearOf(end)
                  /\ YearOf(start - 1) = YearOf(end) - 1
            /\ p = "1y"  => end - start = 365 * 86400
            /\ p = "3y"  => end - start = 1095 * 86400
            /\ p = "5y"  => end - start = 1825 * 86400
            /\ ~Enumerated(p) => end - start = 30 * 86400

\* the windows of the codes other than 1d
C20_WindowsExceptOneDay ==
    \A i \in AltIdx :
        LET p     == sel.period
            start == trace[i].start_date
            end   == trace[i].end_date
        IN  /\ end = trace[i].at - 1
            /\ p = "7d"  => end - start = 7 * 86400
            /\ p = "1mo" => end - start = 30 * 86400
            /\ p = "ytd" =>
                  /\ start <= end
                  /\ start % 86400 = 0
                  /\ YearOf(start) = YearOf(end)
                  /\ YearOf(start - 1) = YearOf(end) - 1
            /\ p = "1y"  => end - start = 365 * 86400
            /\ p = "3y"  => end - start = 1095 * 86400
            /\ p = "5y"  => end - start = 1825 * 86400
            /\ p \in {"1d", "max"} => end - start = 30 * 86400

----------------------------------------------------------------------------
\* the secondary calls made for attempt n
AltOf(n) == {i \in AltIdx : trace[i].att = n}

\* C22: in every execution of fetch_stock_data_with_retry the attempt index
\* stays below max_retries, every index is tried at most once (at most 3
\* primary calls), the secondary strategy is invoked at most once per
\* primary attempt, after that attempt's primary call, and at most
\* max_retries times per fetch.
C22_AttemptsBounded ==
    /\ attempt < max_retries
    /\ attempt >= 0
    /\ Cardinality(PrimaryIdx) <= 3
    /\ \A n \in 0..(max_retries - 1) :
          /\ Cardinality(PrimaryOf(n)) <= 1
          /\ Cardinality(AltOf(n)) <= 1
          /\ \A i \in AltOf(n) : \E j \in PrimaryOf(n) : j < i
    /\ \A i \in PrimaryIdx \cup AltIdx : trace[i].att \in 0..(max_retries - 1)
    /\ Cardinality(AltIdx) <= max_retries

C22_Witness ==
    /\ Returned
    /\ Cardinality(PrimaryIdx) = 3
    /\ Cardinality(AltIdx) = 3
    /\ attempt = 2
    /\ \E i \in PrimaryIdx : EmptyResult(i)
    /\ \E i \in PrimaryIdx : AuthFailure(i)

----------------------------------------------------------------------------
\* the secondary strategy was invoked right after primary call i and gave
\* nothing
AltFailedAfter(i) ==
    /\ Len(trace) >= i + 2
    /\ IsCall(i + 2, "alt")
    /\ trace[i + 2].att = trace[i].att
    /\ trace[i + 2].out \in {"empty", "raise"}

\* C24: when a non-final primary attempt n fails with an auth error and the
\* secondary strategy invoked for it fails too, the fetch does not return:
\* the loop goes on to attempt n+1, whose primary call is preceded by the
\* normal backoff REQUEST_DELAY * 2^(n+1) and by no other sleep.
C24_FailedFallbackContinues ==
    \A i \in PrimaryIdx :
        (AuthFailure(i) /\ NotFinal(i) /\ AltFailedAfter(i)) =>
            LET n == trace[i].att
                w == REQUEST_DELAY * (2 ^ (n + 1))
            IN  \/ /\ Len(trace) = i + 2
                   /\ pc = "primary"
                   /\ attempt = n + 1
                   /\ now = trace[i + 2].end
                \/ /\ Len(trace) >= i + 4
                   /\ trace[i + 3] = SleepEv("backoff", w, n + 1)
                   /\ IsCall(i + 4, "primary")
                   /\ trace[i + 4].att = n + 1
                   /\ trace[i + 4].at = trace[i + 2].end + w

C24_Witness ==
    \E i \in PrimaryIdx :
        /\ AuthFailure(i)
        /\ HasRateMarker(trace[i].msg)
        /\ trace[i].att = 1
        /\ AltFailedAfter(i)
        /\ trace[i + 2].out = "raise"
        /\ Len(trace) >= i + 4
        /\ trace[i + 4].at - trace[i + 2].end = 8

----------------------------------------------------------------------------
\* C26: fetch_stock_data_with_retry returns a failure only after the final
\* primary attempt: an error or an empty result of an attempt below
\* max_retries - 1 never ends the fetch, and every terminal failure has
\* been preceded by exactly max_retries primary calls, one per attempt.
C26_FailureOnlyAfterFinalAttempt ==
    /\ Failed =>
          /\ attempt = max_retries - 1
          /\ Cardinality(PrimaryIdx) = max_retries
          /\ {trace[i].att : i \in PrimaryIdx} = 0..(max_retries - 1)
          /\ \A i \in PrimaryIdx : trace[i].out \in {"empty", "raise"}
          /\ error # NoDiag
    /\ (Returned /\ Cardinality(PrimaryIdx) < max_retries) =>
          /\ df # EmptyDF
          /\ error = NoDiag

C26_Witness ==
    /\ Failed
    /\ \E i \in PrimaryIdx : AuthFailure(i) /\ NotFinal(i) /\ AltFailedAfter(i)
    /\ \E i \in PrimaryIdx : RateFailure(i) /\ NotFinal(i)
    /\ GenericFailure(LastPrimary)

----------------------------------------------------------------------------
\* no fetch is in progress: the script is not running, or it has the series
\* it shows
AtRest == pc \in {"idle", "shown"}

\* what a session would load from the file
DurableCopy == load_cache(disk)

\* C25: in a session that started from an absent or readable cache file,
\* whenever no fetch is in progress the durable copy equals the cache in
\* memory, after any sequence of successful and failed fetches and of
\* restarts: every store is followed, before the request completes, by a
\* write of the whole cache to the file.
C25_DurableEqualsMemory ==
    /\ AtRest => DurableCopy = cache
    /\ (AtRest /\ cache # EmptyDict) => disk = [state |-> "ok", content |-> cache]

C25_Witness ==
    /\ pc = "shown"
    /\ fetches = 2
    /\ session = 0
    /\ error # NoDiag
    /\ ~lastLookup.hit
    /\ lastLookup.key = get_cache_key(<<"AAPL">>, "1mo")
    /\ DOMAIN cache = {get_cache_key(<<"PETR4.SA">>, "1mo")}
    /\ created[get_cache_key(<<"PETR4.SA">>, "1mo")].session = 0
    /\ disk.content = cache

----------------------------------------------------------------------------
\* the page starts a series request: the cache check of line 738 runs
RequestStep == pc = "idle" /\ pc' # "idle"

\* the entry of the requested key is valid when the check runs
ValidEntry(key) ==
    /\ key \in DOMAIN cache
    /\ "timestamp" \in DOMAIN cache[key]
    /\ now - cache[key].timestamp < CACHE_DURATION

\* C21: a series request that finds a valid entry for its key shows the
\* cached series and nothing else happens: the rate limiter does not wait
\* (the clock does not move), no primary, secondary or metadata call is
\* made (the script goes to its end, the history of calls is unchanged, no
\* fetch is counted), and last_request_time, the cache and the file are
\* unchanged.
C21_HitTouchesNothing ==
    [][ (RequestStep /\ ValidEntry(lastLookup'.key)) =>
            /\ pc' = "shown"
            /\ lastLookup'.hit
            /\ lastLookup'.key = get_cache_key(sel'.stock, sel'.period)
            /\ df' = FromRecords(cache[lastLookup'.key].data)
            /\ df' = created[lastLookup'.key].frame
            /\ UNCHANGED <<now, last_request_time, cache, disk, calls, fetches,
                           trace, attempt, info_attempt, error>> ]_vars

C21_Witness ==
    /\ pc = "shown"
    /\ lastLookup.hit
    /\ fetches = 1
    /\ calls.recent = << >>
    /\ df = BarsPrimary
    /\ last_request_time = now - 1

----------------------------------------------------------------------------
\* a cache-miss request passes the rate limiter
MissStep == pc = "idle" /\ pc' \in {"primary", "cut"}

\* a new session starts
RestartStep == session' # session

\* C27: when the fetch of a cache-miss request returns, with a series or
\* with a failure, last_request_time is set to the time of the return, and
\* nothing else changes it within the session; a cache-miss request issued
\* less than REQUEST_DELAY after that time waits the remainder of
\* REQUEST_DELAY before it enters the fetch, and does not wait otherwise.
C27_StampedOnEveryReturn ==
    [][ /\ pc = "returned" => (last_request_time' = now /\ now' = now)
        /\ last_request_time' # last_request_time =>
              (pc = "returned" \/ RestartStep)
        /\ MissStep =>
              LET elapsed == now - last_request_time
              IN  /\ elapsed < REQUEST_DELAY =>
                        now' = last_request_time + REQUEST_DELAY
                  /\ elapsed >= REQUEST_DELAY => now' = now ]_vars

\* a second request, made 1 s after the failure of the first, waited 1 s
C27_Witness ==
    /\ pc = "cut"
    /\ fetches = 2
    /\ session = 0
    /\ ticks = 1
    /\ cache = EmptyDict
    /\ ~lastLookup.hit
    /\ lastLookup.at = last_request_time + 1
    /\ now = last_request_time + REQUEST_DELAY

----------------------------------------------------------------------------
\* the page has the result of a fetch made for a cache miss
AfterMiss == pc = "shown" /\ Looked /\ ~lastLookup.hit

\* what fetch_ticker_info_safe may return, as the store records it; "{}" is
\* the empty dict returned after its failure
InfoResults == {"info", "fast_info", "short", "{}"}

\* C28: fetch_ticker_info_safe is called only after the series fetch
\* returned a non-empty series without a diagnostic; whatever it does, the
\* request ends with that series shown and stored under its key, stamped
\* with the time of the store, with the metadata it returned, which is the
\* empty dict after its failure.
C28_InfoFailureKeepsSeries ==
    /\ pc = "info" =>
          /\ df # EmptyDF
          /\ error = NoDiag
          /\ info_attempt < info_max_retries
    /\ info_attempt > 0 => pc = "info"
    /\ (AfterMiss /\ df # EmptyDF) =>
          /\ error = NoDiag
          /\ lastLookup.key \in DOMAIN cache
          /\ FromRecords(cache[lastLookup.key].data) = df
          /\ cache[lastLookup.key].info \in InfoResults
          /\ "timestamp" \in DOMAIN cache[lastLookup.key]
          /\ cache[lastLookup.key].timestamp = now
          /\ created[lastLookup.key].frame = df
          /\ disk = save_cache(cache)
    /\ (AfterMiss /\ df = EmptyDF) => error # NoDiag

C28_Witness ==
    /\ AfterMiss
    /\ df = BarsAlt
    /\ cache[lastLookup.key].info = "{}"
    /\ cache[lastLookup.key].timestamp = now
    /\ now - last_request_time = 2 * REQUEST_DELAY + 2 * MaxCallTime

----------------------------------------------------------------------------
(* The ends of a series request *)

CacheHit == pc = "shown" /\ Looked /\ lastLookup.hit

StoreAndReturn ==
    /\ AfterMiss
    /\ df # EmptyDF
    /\ error = NoDiag
    /\ lastLookup.key \in DOMAIN cache

TerminalFailure == AfterMiss /\ df = EmptyDF /\ error # NoDiag

\* C23: provided every provider call returns or raises, every series
\* request ends, as a cache hit, with a series stored and shown, or with a
\* terminal failure, whatever the primary, the secondary and the metadata
\* call answer; the fetch enters a primary attempt only from the cache miss
\* (attempt 0) or from the attempt before it, and never with an attempt
\* index of max_retries or more.
C23_RequestTerminates ==
    /\ <>(CacheHit \/ StoreAndReturn \/ TerminalFailure)
    /\ [][ pc' = "primary" =>
              \/ pc = "idle" /\ attempt' = 0
              \/ attempt' = attempt + 1 /\ attempt' < max_retries ]_vars

\* three rate-limited attempts: 8 s + 4 s, then 16 s + 8 s of sleep
C23_Witness ==
    /\ TerminalFailure
    /\ error = ErrorDiag(MsgTooMany, NoMsg)
    /\ now - lastLookup.at = 36 + 3 * MaxCallTime

====
